---- MODULE Spec2Model ----
(***************************************************************************)
(* A model of apiscout's ApiQR class (src/apiscout/ApiQR.py): the Hilbert  *)
(* curve index generator, the colour mapper, the reshaping of the vector   *)
(* into curve order, and the per-cell computations of the PNG and HTML     *)
(* exports.                                                                *)
(*                                                                         *)
(* Python floats are IEEE-754 doubles.  The colour mapper truncates the    *)
(* result of a floating point expression, so the rounding of every single  *)
(* operation decides the channel value.  Doubles are therefore modelled    *)
(* exactly: a double is sign * m * 2^e with m a natural number of at most  *)
(* 53 bits, m is kept as a sequence of limbs (TLC integers have 32 bits),   *)
(* and every arithmetic operation computes the exact result and rounds it  *)
(* to nearest, ties to even.  Exponent overflow and subnormals are out of  *)
(* reach of the inputs used here.                                          *)
(***************************************************************************)
EXTENDS Integers, Sequences, FiniteSets, TLC

----------------------------------------------------------------------------
(* What a call gives: the value returned, or the exception raised.  The    *)
(* record of a call is the operation, its arguments and what it gave.      *)

NoError == "none"
Failed(err) == [err |-> err, value |-> <<>>]
Returned(value) == [err |-> NoError, value |-> value]

\* no call in progress
Idle == [op |-> "init", arg |-> <<>>, res |-> Returned(<<>>)]

----------------------------------------------------------------------------
(* Natural numbers of arbitrary size: little-endian sequences of limbs in  *)
(* base 2^15, without leading zero limbs; zero is the empty sequence.      *)

\* a product of two limbs plus a carry must fit a 32-bit integer
LimbBits == 16 - 1
LimbBase == 2^15

RECURSIVE Pow2(_)
Pow2(k) == IF k = 0 THEN 1 ELSE 2 * Pow2(k - 1)

RECURSIVE BNorm(_)
BNorm(a) ==
  IF a = <<>> THEN <<>>
  ELSE IF a[Len(a)] = 0 THEN BNorm(SubSeq(a, 1, Len(a) - 1))
  ELSE a

RECURSIVE BFromInt(_)
BFromInt(n) ==
  IF n = 0 THEN <<>> ELSE <<n % LimbBase>> \o BFromInt(n \div LimbBase)

RECURSIVE BToInt(_)
BToInt(a) ==
  IF a = <<>> THEN 0 ELSE a[1] + LimbBase * BToInt(Tail(a))

RECURSIVE BAddC(_, _, _)
BAddC(a, b, carry) ==
  IF a = <<>> /\ b = <<>>
  THEN IF carry = 0 THEN <<>> ELSE <<carry>>
  ELSE LET x == IF a = <<>> THEN 0 ELSE a[1]
           y == IF b = <<>> THEN 0 ELSE b[1]
           s == x + y + carry
           ta == IF a = <<>> THEN <<>> ELSE Tail(a)
           tb == IF b = <<>> THEN <<>> ELSE Tail(b)
       IN  <<s % LimbBase>> \o BAddC(ta, tb, s \div LimbBase)

BAdd(a, b) == BAddC(a, b, 0)

\* a - b for a >= b
RECURSIVE BSubC(_, _, _)
BSubC(a, b, borrow) ==
  IF a = <<>> THEN <<>>
  ELSE LET y == IF b = <<>> THEN 0 ELSE b[1]
           d == a[1] - y - borrow
           tb == IF b = <<>> THEN <<>> ELSE Tail(b)
       IN  IF d < 0
           THEN <<d + LimbBase>> \o BSubC(Tail(a), tb, 1)
           ELSE <<d>> \o BSubC(Tail(a), tb, 0)

BSub(a, b) == BNorm(BSubC(a, b, 0))

\* -1, 0, 1 as a < b, a = b, a > b (both without leading zeros)
RECURSIVE BCmpFrom(_, _, _)
BCmpFrom(a, b, i) ==
  IF i = 0 THEN 0
  ELSE IF a[i] < b[i] THEN -1
  ELSE IF a[i] > b[i] THEN 1
  ELSE BCmpFrom(a, b, i - 1)

BCmp(a, b) ==
  IF Len(a) < Len(b) THEN -1
  ELSE IF Len(a) > Len(b) THEN 1
  ELSE BCmpFrom(a, b, Len(a))

\* a * k + carry for 0 <= k < 2^15
RECURSIVE BMulSmallC(_, _, _)
BMulSmallC(a, k, carry) ==
  IF a = <<>>
  THEN IF carry = 0 THEN <<>> ELSE <<carry>>
  ELSE LET p == a[1] * k + carry
       IN  <<p % LimbBase>> \o BMulSmallC(Tail(a), k, p \div LimbBase)

BMulSmall(a, k) == BNorm(BMulSmallC(a, k, 0))

RECURSIVE BMulRaw(_, _)
BMulRaw(a, b) ==
  IF b = <<>> THEN <<>>
  ELSE BAdd(BMulSmallC(a, b[1], 0), <<0>> \o BMulRaw(a, Tail(b)))

BMul(a, b) == BNorm(BMulRaw(a, b))

\* floor(a / k) and a mod k for 0 < k <= 2^15, from the top limb down
RECURSIVE BDivSmallFrom(_, _, _, _)
BDivSmallFrom(a, k, i, rem) ==
  IF i = 0 THEN [q |-> <<>>, r |-> rem]
  ELSE LET cur == rem * LimbBase + a[i]
           rest == BDivSmallFrom(a, k, i - 1, cur % k)
       IN  [q |-> rest.q \o <<cur \div k>>, r |-> rest.r]

BDivSmall(a, k) ==
  LET qr == BDivSmallFrom(a, k, Len(a), 0)
  IN  [q |-> BNorm(qr.q), r |-> qr.r]

RECURSIVE IntBitLen(_)
IntBitLen(n) == IF n = 0 THEN 0 ELSE 1 + IntBitLen(n \div 2)

BBitLen(a) ==
  IF a = <<>> THEN 0 ELSE (Len(a) - 1) * LimbBits + IntBitLen(a[Len(a)])

Zeros(k) == [i \in 1..k |-> 0]

\* a * 2^s
BShl(a, s) ==
  IF a = <<>> THEN <<>>
  ELSE Zeros(s \div LimbBits) \o BMulSmall(a, Pow2(s % LimbBits))

\* floor(a / 2^s)
BShr(a, s) ==
  LET drop == s \div LimbBits
  IN  IF drop >= Len(a) THEN <<>>
      ELSE BDivSmall(SubSeq(a, drop + 1, Len(a)), Pow2(s % LimbBits)).q

BIsOdd(a) == a # <<>> /\ a[1] % 2 = 1

----------------------------------------------------------------------------
(* IEEE-754 doubles.  A double is [neg, m, e], the number (-1)^neg * m *   *)
(* 2^e, in canonical form: m is odd, or m is zero with e = 0 and neg       *)
(* FALSE.  Equal numbers have equal representations.                       *)

\* bits of the significand of a Python float (sys.float_info.mant_dig)
MantDig == 53

RECURSIVE IntTrailingZeros(_)
IntTrailingZeros(n) == IF n % 2 = 1 THEN 0 ELSE 1 + IntTrailingZeros(n \div 2)

\* m * 2^e with the t trailing zero bits of m moved into the exponent
CanonShift(neg, m, e, t) == [neg |-> neg, m |-> BShr(m, t), e |-> e + t]

RECURSIVE Canon(_, _, _)
Canon(neg, m, e) ==
  IF m = <<>> THEN [neg |-> FALSE, m |-> <<>>, e |-> 0]
  ELSE IF m[1] = 0 THEN Canon(neg, Tail(m), e + LimbBits)
  ELSE CanonShift(neg, m, e, IntTrailingZeros(m[1]))

\* are the s lowest bits of m all zero
LowBitsZero(m, s) ==
  /\ \A i \in 1..(s \div LimbBits) : i > Len(m) \/ m[i] = 0
  /\ \/ (s \div LimbBits) + 1 > Len(m)
     \/ m[(s \div LimbBits) + 1] % Pow2(s % LimbBits) = 0

\* q * 2^e, one up when the dropped part is above a half, or is a half and q
\* is odd: round to nearest, ties to even
RoundInc(neg, q, e, half, sticky) ==
  Canon(neg, IF half /\ (sticky \/ BIsOdd(q)) THEN BAdd(q, <<1>>) ELSE q, e)

\* q2 holds the kept bits and, as its lowest bit, the first dropped bit
RoundHalf(neg, q2, e, sticky) ==
  RoundInc(neg, BDivSmall(q2, 2).q, e, BIsOdd(q2), sticky)

\* m * 2^e with the k lowest bits of m rounded away
RoundTo(neg, m, e, sticky, k) ==
  IF k <= 0 THEN Canon(neg, m, e)
  ELSE RoundHalf(neg, BShr(m, k - 1), e + k, sticky \/ ~LowBitsZero(m, k - 1))

\* the double nearest to (-1)^neg * (m + f) * 2^e, ties to even, where
\* f = 0 when sticky is FALSE and 0 < f < 1 otherwise (sticky needs m to
\* have more than MantDig bits)
RoundNearestEven(neg, m, e, sticky) ==
  RoundTo(neg, m, e, sticky, BBitLen(m) - MantDig)

\* float(n) for an integer n
FromInt(n) == Canon(n < 0, BFromInt(IF n < 0 THEN -n ELSE n), 0)

\* the double num / den (den > 0, correctly rounded): the value of the
\* Python expression num / den and of the decimal literal it spells
DivBits == MantDig + 37

RoundQuotient(neg, d) == RoundNearestEven(neg, d.q, -DivBits, d.r # 0)

FromRatio(num, den) ==
  RoundQuotient(num < 0,
    BDivSmall(BShl(BFromInt(IF num < 0 THEN -num ELSE num), DivBits), den))

FZero == [neg |-> FALSE, m |-> <<>>, e |-> 0]
FOne == [neg |-> FALSE, m |-> <<1>>, e |-> 0]

FNeg(x) == IF x.m = <<>> THEN x ELSE [x EXCEPT !.neg = ~x.neg]

\* x * y
FMul(x, y) ==
  RoundNearestEven(x.neg # y.neg, BMul(x.m, y.m), x.e + y.e, FALSE)

\* the sum of (-1)^xn * mx * 2^e and (-1)^yn * my * 2^e, c comparing mx to my
AddSigned(xn, mx, yn, my, e, c) ==
  RoundNearestEven(
    IF xn = yn \/ c > 0 THEN xn ELSE yn,
    IF xn = yn THEN BAdd(mx, my)
    ELSE IF c > 0 THEN BSub(mx, my) ELSE BSub(my, mx),
    e, FALSE)

AddAligned(xn, mx, yn, my, e) == AddSigned(xn, mx, yn, my, e, BCmp(mx, my))

MinInt(a, b) == IF a < b THEN a ELSE b

\* x + y
FAdd(x, y) ==
  AddAligned(x.neg, BShl(x.m, x.e - MinInt(x.e, y.e)),
             y.neg, BShl(y.m, y.e - MinInt(x.e, y.e)), MinInt(x.e, y.e))

\* x - y
FSub(x, y) == FAdd(x, FNeg(y))

LessAligned(xn, mx, yn, my) ==
  IF xn # yn THEN xn
  ELSE IF xn THEN BCmp(mx, my) > 0 ELSE BCmp(mx, my) < 0

\* x < y
FLess(x, y) ==
  LessAligned(x.neg, BShl(x.m, x.e - MinInt(x.e, y.e)),
              y.neg, BShl(y.m, y.e - MinInt(x.e, y.e)))

\* int(x): truncation toward zero (the results here fit a TLC integer)
FTrunc(x) ==
  IF x.e >= 0 THEN (IF x.neg THEN -1 ELSE 1) * BToInt(BShl(x.m, x.e))
  ELSE (IF x.neg THEN -1 ELSE 1) * BToInt(BShr(x.m, -x.e))

\* round(x) for x >= 0: the nearest integer, ties to even
FRound(x) ==
  IF x.e >= 0 THEN FTrunc(x)
  ELSE FTrunc(x)
       + (IF /\ BIsOdd(BShr(x.m, -x.e - 1))
             /\ (~LowBitsZero(x.m, -x.e - 1) \/ FTrunc(x) % 2 = 1)
          THEN 1 ELSE 0)

----------------------------------------------------------------------------
(* Values of the vector.  A component is a Python bool, [bool |-> b], or a *)
(* number, a double (a Python int is the double of the same value: every   *)
(* expression below gives an int and the equal float the same result).     *)

IsBool(value) == "bool" \in DOMAIN value
PyTrue == [bool |-> TRUE]
PyFalse == [bool |-> FALSE]

\* the numeric value of a component: bool is a subclass of int
NumOf(value) ==
  IF IsBool(value) THEN (IF value.bool THEN FOne ELSE FZero) ELSE value

\* ApiQRContext.colors_white, the sentinel colour of the context
colors_white == <<255, 255, 255>>

\* one channel of the interpolation of __mapColor:
\* int((1 - alpha) * 255 + alpha * color[i])
InterpolateChannel(alpha, channel) ==
  FTrunc(FAdd(FMul(FSub(FOne, alpha), FromInt(255)),
              FMul(alpha, FromInt(channel))))

Interpolate(alpha, color) ==
  << InterpolateChannel(alpha, color[1]),
     InterpolateChannel(alpha, color[2]),
     InterpolateChannel(alpha, color[3]) >>

\* max(lo, 0)
AtLeastZero(lo) == IF FLess(lo, FZero) THEN FZero ELSE lo

\* max(min(value, 1), 0)
ClampAlpha(value) == AtLeastZero(IF FLess(FOne, value) THEN FOne ELSE value)

\* __mapColor with the results of its two special cases exchanged
mapColorSwapped(value, color) ==
  IF NumOf(value) = FOne THEN colors_white
  ELSE IF NumOf(value) = FZero THEN color
  ELSE Interpolate(ClampAlpha(value), color)

\* ApiQR.__mapColor
mapColor(value, color) ==
  IF NumOf(value) = FOne THEN color
  ELSE IF NumOf(value) = FZero THEN colors_white
  ELSE Interpolate(ClampAlpha(value), color)

----------------------------------------------------------------------------
(* numpy arrays.  A two-dimensional array is a sequence of rows; the       *)
(* source's indices start at 0 and the sequences' at 1.                    *)

Rows(g) == Len(g)
Cols(g) == IF g = <<>> THEN 0 ELSE Len(g[1])

\* ndarray.size
Size(g) == Rows(g) * Cols(g)

Reverse(s) == [i \in 1..Len(s) |-> s[Len(s) + 1 - i]]

\* np.flipud, np.fliplr, np.transpose
flipud(g) == Reverse(g)
fliplr(g) == [i \in 1..Rows(g) |-> Reverse(g[i])]
transpose(g) == [j \in 1..Cols(g) |-> [i \in 1..Rows(g) |-> g[i][j]]]

\* rot90 turning the same way for every k
rot90OneWay(g, k) == transpose(fliplr(g))

\* np.rot90(g, k) for k = 1 (counter-clockwise) and k = -1 (clockwise)
rot90(g, k) == IF k = 1 THEN transpose(fliplr(g)) ELSE fliplr(transpose(g))

\* g + x, element-wise
AddScalar(g, x) == [i \in 1..Rows(g) |-> [j \in 1..Cols(g) |-> g[i][j] + x]]

\* np.hstack([a, b]), np.vstack([top, bottom])
hstack(a, b) == [i \in 1..Rows(a) |-> a[i] \o b[i]]
vstack(top, bottom) == top \o bottom

\* ndarray.ravel(): the elements in row-major order
RECURSIVE ravel(_)
ravel(g) == IF g = <<>> THEN <<>> ELSE g[1] \o ravel(Tail(g))

\* flat.reshape(rows, cols, element_size), each cell an array of element_size
reshape(flat, rows, cols) ==
  [i \in 1..rows |-> [j \in 1..cols |-> flat[(i - 1) * cols + j]]]

\* Depth of the interpreter's call stack a recursion may use before Python
\* raises RecursionError (scaled down; a call on a power of two n recurses
\* log2(n) + 1 deep).
RecursionLimit == 40

\* Quadrants with the offset of quadrant C given to quadrant D as well
QuadrantsSameOffset(t) ==
  vstack(hstack(flipud(rot90(t, 1)), AddScalar(t, Size(t))),
         hstack(AddScalar(flipud(rot90(t, -1)), Size(t) * 2),
                AddScalar(t, Size(t) * 2)))

\* the four quadrants of __hilbertCurve put together, from t, the curve
\* of half the size
Quadrants(t) ==
  vstack(hstack(flipud(rot90(t, 1)), AddScalar(t, Size(t))),
         hstack(AddScalar(flipud(rot90(t, -1)), Size(t) * 3),
                AddScalar(t, Size(t) * 2)))

\* what __hilbertCurve returns, given what its recursive call gave
Assemble(sub) == IF sub.err # NoError THEN sub ELSE Returned(Quadrants(sub.value))

\* ApiQR.__hilbertCurve, with the depth of the recursion
RECURSIVE hilbertCurveAt(_, _)
hilbertCurveAt(n, depth) ==
  IF depth > RecursionLimit THEN Failed("RecursionError")
  ELSE IF n = 1 THEN Returned(<< <<0>> >>)
  ELSE Assemble(hilbertCurveAt(n \div 2, depth + 1))

hilbertCurve(n) == hilbertCurveAt(n, 1)

\* int(length ** 0.5): the largest r with r * r <= length (the float power
\* and the truncation are exact for the lengths used here)
RECURSIVE ISqrtFrom(_, _)
ISqrtFrom(length, r) ==
  IF (r + 1) * (r + 1) > length THEN r ELSE ISqrtFrom(length, r + 1)

ISqrt(length) == ISqrtFrom(length, 0)

\* list(range(length))
range(length) == [i \in 1..length |-> i - 1]

\* digitize with right=False: bins[i-1] <= x < bins[i]
digitizeLeft(x, bins) == Cardinality({i \in 1..Len(bins) : bins[i] <= x})

\* np.digitize(x, bins, right=True) for increasing bins: the index i with
\* bins[i-1] < x <= bins[i], which is the number of bins below x
digitize(x, bins) == Cardinality({i \in 1..Len(bins) : bins[i] < x})

\* np.array(vector) for a vector of scalars: one dtype for all elements, so
\* bools among numbers become the floats 1.0 and 0.0; each element has shape ()
NpArrayOfScalars(vector) ==
  [elems |-> IF \A i \in 1..Len(vector) : IsBool(vector[i]) THEN vector
             ELSE [i \in 1..Len(vector) |-> NumOf(vector[i])],
   scalar |-> TRUE]

\* np.array(vector) for a vector of colour triples: each element has shape (3,)
NpArrayOfColors(vector) == [elems |-> vector, scalar |-> FALSE]

\* np.array(vector)[picked].reshape(rows, cols, element_size): fancy
\* indexing raises IndexError for an index out of range
TakeAndReshape(arr, picked, rows, cols) ==
  IF \E k \in 1..Len(picked) : picked[k] >= Len(arr.elems)
  THEN Failed("IndexError")
  ELSE Returned(reshape([k \in 1..Len(picked) |->
                           IF arr.scalar THEN << arr.elems[picked[k] + 1] >>
                           ELSE arr.elems[picked[k] + 1]],
                        rows, cols))

\* np.digitize(flat, list(range(length)), right=True)
DigitizeAll(flat, length) ==
  [k \in 1..Len(flat) |-> digitize(flat[k], range(length))]

Gather(arr, curve) ==
  IF curve.err # NoError THEN curve
  ELSE TakeAndReshape(arr, DigitizeAll(ravel(curve.value), Len(arr.elems)),
                      Rows(curve.value), Cols(curve.value))

\* ApiQR.__vectorToHilbert, on np.array(vector); np.array(vector)[0] raises
\* IndexError on the empty vector
vectorToHilbert(arr) ==
  IF arr.elems = <<>> THEN Failed("IndexError")
  ELSE Gather(arr, hilbertCurve(ISqrt(Len(arr.elems))))

\* ApiQR.vector_hilbert
vector_hilbert(vector) == vectorToHilbert(NpArrayOfScalars(vector))

\* np.int8(x): the low byte as a signed number
Int8(x) == ((x + 128) % 256) - 128

\* Image.fromarray(..., mode): the bytes of the array taken as channel
\* values 0..255
ByteOf(x) == x % 256

\* colored_vector = list(map(self.__mapColor, self.vector, self.context.colors))
ColoredVector(vector, colors) ==
  [i \in 1..Len(vector) |-> mapColor(vector[i], colors[i])]

\* the whole list repeated, colored_vector * 4 ** scale_factor
ScaledVectorTiled(colored_vector, rep) ==
  [j \in 1..(Len(colored_vector) * rep) |->
     colored_vector[((j - 1) % Len(colored_vector)) + 1]]

\* scaled_vector = sum(([e] * 4 ** scale_factor for e in colored_vector), [])
ScaledVector(colored_vector, rep) ==
  [j \in 1..(Len(colored_vector) * rep) |-> colored_vector[((j - 1) \div rep) + 1]]

\* Image.fromarray(np.int8(hilbert), mode=colors_format): the pixels
ImageOf(hilbert) ==
  IF hilbert.err # NoError THEN hilbert
  ELSE Returned([r \in 1..Rows(hilbert.value) |->
                   [c \in 1..Cols(hilbert.value) |->
                      [ch \in 1..3 |-> ByteOf(Int8(hilbert.value[r][c][ch]))]]])

\* the body of ApiQR.exportPng: the pixels of the saved image
exportPng(vector, colors, scale_factor) ==
  ImageOf(vectorToHilbert(NpArrayOfColors(
    ScaledVector(ColoredVector(vector, colors), 4 ^ scale_factor))))

\* the literals 0.2 and 0.4 of exportHtml
DimValue == FromRatio(1, 5)
RescaleBase == FromRatio(2, 5)

\* value = 0.4 + (value * (1 - 0.4))
Rescale(value) ==
  FAdd(RescaleBase, FMul(NumOf(value), FSub(FOne, RescaleBase)))

\* a cell that is dim when its value is zero, whatever its mapped colour
htmlCellByValue(value, raw_color, index) ==
  IF NumOf(value) = FZero
  THEN [api |-> index, color |-> mapColor(DimValue, raw_color), delay |-> TRUE]
  ELSE [api |-> index, color |-> mapColor(Rescale(value), raw_color),
        delay |-> FALSE]

\* one <td> of ApiQR.exportHtml: the API it names, its background colour and
\* whether it is the cell of the first branch (data-delay="200")
htmlCell(value, raw_color, index) ==
  IF mapColor(value, raw_color) = colors_white
  THEN [api |-> index, color |-> mapColor(DimValue, raw_color), delay |-> TRUE]
  ELSE [api |-> index, color |-> mapColor(Rescale(value), raw_color),
        delay |-> FALSE]

\* the rows of the table: for hilbert_row in curve, for index in hilbert_row
htmlRows(vector, colors, curve) ==
  IF curve.err # NoError THEN curve
  ELSE Returned([r \in 1..Rows(curve.value) |->
                   [c \in 1..Cols(curve.value) |->
                      htmlCell(vector[curve.value[r][c] + 1],
                               colors[curve.value[r][c] + 1],
                               curve.value[r][c])]])

\* the table of ApiQR.exportHtml; 1.0 / hilbert_size raises
\* ZeroDivisionError before the curve is asked for
exportHtml(vector, colors) ==
  IF ISqrt(Len(vector)) = 0 THEN Failed("ZeroDivisionError")
  ELSE htmlRows(vector, colors, hilbertCurve(ISqrt(Len(vector))))

----------------------------------------------------------------------------
(* The inputs.                                                             *)

\* vector components are the bools and the floats k / ValueDen for
\* -BeyondUnit <= k <= ValueDen + BeyondUnit: 0 and 1, fractions between
\* them, negative values and values above 1
ValueDen == 25
BeyondUnit == 2
NumValues == ValueDen + 2 * BeyondUnit + 3

ValueAt(j) ==
  IF j = 0 THEN PyTrue
  ELSE IF j = 1 THEN PyFalse
  ELSE FromRatio(j - 2 - BeyondUnit, ValueDen)

Values == {ValueAt(j) : j \in 0..(NumValues - 1)}

\* the lengths of the vectors handed to the constructor, and how many
\* vectors of each length
MaxLen == 16
NumPatterns == 3

VectorOf(length, pattern) ==
  [i \in 1..length |-> ValueAt(((i - 1) + pattern * MaxLen) % NumValues)]

\* base colours of the context, ApiQRContext.colors
Palette ==
  << <<255, 0, 0>>, <<255, 255, 255>>, <<0, 0, 0>>, <<2, 128, 254>>,
     <<0, 255, 0>>, <<55, 200, 5>>, <<255, 255, 254>> >>

ColorsOf(length, pattern) ==
  [i \in 1..length |-> Palette[(((i - 1) + pattern) % Len(Palette)) + 1]]

\* the channel values of the colours handed to __mapColor directly
Channels == {0, 2, 128, 255}
Colours == {<<r, g, b>> : r \in Channels, g \in Channels, b \in Channels}

\* the arguments of __hilbertCurve and of exportPng
MaxSize == 32
MaxScale == 1

----------------------------------------------------------------------------
(* The state: the ApiQR object (its vector, and the colours of its         *)
(* context) and the call in progress with what it returned or raised.  The *)
(* operations are synchronous and leave the object alone: a call is made   *)
(* on the idle object, and its result is consumed by the caller before the *)
(* next call.                                                              *)

VARIABLES vector, colors, out

vars == <<vector, colors, out>>

Init ==
  /\ \E length \in 0..MaxLen, pattern \in 0..(NumPatterns - 1) :
       /\ vector = VectorOf(length, pattern)
       /\ colors = ColorsOf(length, pattern)
  /\ out = Idle

CallHilbertCurve(n) ==
  /\ out = Idle
  /\ out' = [op |-> "hilbertCurve", arg |-> <<n>>, res |-> hilbertCurve(n)]
  /\ UNCHANGED <<vector, colors>>

CallVectorHilbert ==
  /\ out = Idle
  /\ out' = [op |-> "vector_hilbert", arg |-> <<>>, res |-> vector_hilbert(vector)]
  /\ UNCHANGED <<vector, colors>>

CallExportPng(scale_factor) ==
  /\ out = Idle
  /\ out' = [op |-> "exportPng", arg |-> <<scale_factor>>,
             res |-> exportPng(vector, colors, scale_factor)]
  /\ UNCHANGED <<vector, colors>>

CallExportHtml ==
  /\ out = Idle
  /\ out' = [op |-> "exportHtml", arg |-> <<>>, res |-> exportHtml(vector, colors)]
  /\ UNCHANGED <<vector, colors>>

CallMapColor(value, color) ==
  /\ out = Idle
  /\ out' = [op |-> "mapColor", arg |-> <<value, color>>,
             res |-> Returned(mapColor(value, color))]
  /\ UNCHANGED <<vector, colors>>

\* the caller takes the result (or the exception) of the call
Consume ==
  /\ out # Idle
  /\ out' = Idle
  /\ UNCHANGED <<vector, colors>>

Next ==
  \/ \E n \in -1..MaxSize : CallHilbertCurve(n)
  \/ CallVectorHilbert
  \/ \E scale_factor \in 0..MaxScale : CallExportPng(scale_factor)
  \/ CallExportHtml
  \/ Consume

Spec == Init /\ [][Next]_vars

\* the colour mapper alone, on an object with the empty vector
InitColor == Init /\ vector = <<>>

NextColor ==
  \/ \E value \in Values, color \in Colours : CallMapColor(value, color)
  \/ Consume

SpecColor == InitColor /\ [][NextColor]_vars

----------------------------------------------------------------------------
(* The properties.                                                         *)

RECURSIVE IsPowerOfTwo(_)
IsPowerOfTwo(n) ==
  \/ n = 1
  \/ n > 1 /\ n % 2 = 0 /\ IsPowerOfTwo(n \div 2)

\* is g a grid of rows rows and cols cols
IsGrid(g, rows, cols) ==
  /\ Len(g) = rows
  /\ \A r \in 1..rows : Len(g[r]) = cols

CellValues(g) == {g[r][c] : r \in 1..Rows(g), c \in 1..Cols(g)}

\* the vector's length is n * n for a power of two n
SquareOfPowerOfTwo(length) ==
  /\ ISqrt(length) * ISqrt(length) = length
  /\ IsPowerOfTwo(ISqrt(length))

\* Python's ==: a bool equals the number of its value
PyEq(x, y) == NumOf(x) = NumOf(y)

\* C1: for a power of two n, __hilbertCurve(n) returns an n-by-n grid whose
\* entries are exactly the integers 0 .. n*n-1, each once.
C1_Permutation ==
  (out.op = "hilbertCurve" /\ IsPowerOfTwo(out.arg[1])) =>
    /\ out.res.err = NoError
    /\ IsGrid(out.res.value, out.arg[1], out.arg[1])
    /\ CellValues(out.res.value) = 0..(out.arg[1] * out.arg[1] - 1)

C1_Witness ==
  /\ out.op = "hilbertCurve"
  /\ out.arg[1] = 32
  /\ out.res.err = NoError
  /\ Cardinality(CellValues(out.res.value)) = 1024

\* the cells next to (r, c): one step in one coordinate
Neighbours(g, r, c) ==
  {p \in {<<r - 1, c>>, <<r + 1, c>>, <<r, c - 1>>, <<r, c + 1>>} :
     p[1] \in 1..Rows(g) /\ p[2] \in 1..Cols(g)}

\* C2: for a power of two n and 0 <= k < n*n-1, the positions of k and k+1
\* in __hilbertCurve(n) differ by exactly 1 in exactly one coordinate.  No
\* value stands in two cells, so k+1 has one position, and it is a
\* neighbour of the cell of k.
C2_Continuity ==
  (out.op = "hilbertCurve" /\ IsPowerOfTwo(out.arg[1])) =>
    /\ out.res.err = NoError
    /\ Cardinality(CellValues(out.res.value)) = Size(out.res.value)
    /\ \A r \in 1..Rows(out.res.value), c \in 1..Cols(out.res.value) :
         out.res.value[r][c] < Size(out.res.value) - 1 =>
           \E p \in Neighbours(out.res.value, r, c) :
             out.res.value[p[1]][p[2]] = out.res.value[r][c] + 1

\* a curve of four quadrants of four quadrants each, with the step from
\* quadrant A into quadrant B (3 -> 4) and from C into D (11 -> 12)
C2_Witness ==
  /\ out.op = "hilbertCurve"
  /\ out.arg[1] = 4
  /\ out.res.err = NoError
  /\ out.res.value[1][2] = 3 /\ out.res.value[1][3] = 4
  /\ out.res.value[4][3] = 11 /\ out.res.value[4][2] = 12

\* C3: __hilbertCurve(n) for n not a power of two, or n < 1, fails with
\* InvalidSizeError and returns no grid.
C3_InvalidSizeRejected ==
  (out.op = "hilbertCurve" /\ ~IsPowerOfTwo(out.arg[1])) =>
    /\ out.res.err = "InvalidSizeError"
    /\ out.res.value = <<>>

\* C4: exportHtml and vector_hilbert on a vector whose length is not a
\* perfect square fail with NonSquareLengthError and give no grid.
C4_NonSquareRejected ==
  (/\ out.op \in {"exportHtml", "vector_hilbert"}
   /\ ISqrt(Len(vector)) * ISqrt(Len(vector)) # Len(vector)) =>
    /\ out.res.err = "NonSquareLengthError"
    /\ out.res.value = <<>>

\* C5: __mapColor(v, c) is c when v is True or equal to 1, and the sentinel
\* colour of the context when v is False or equal to 0, for every colour c.
C5_SpecialCases ==
  out.op = "mapColor" =>
    /\ out.arg[1] \in {PyTrue, FromInt(1)} => out.res.value = out.arg[2]
    /\ out.arg[1] \in {PyFalse, FromInt(0)} => out.res.value = colors_white

C5_Witness ==
  /\ out.op = "mapColor"
  /\ out.arg[1] = PyTrue
  /\ out.arg[2] = <<0, 2, 128>>
  /\ out.res.value = <<0, 2, 128>>

\* (1 - alpha) * 255 + alpha * channel, in floating point, for
\* alpha = max(0, min(value, 1))
Blend(value, channel) ==
  FAdd(FMul(FSub(FOne, ClampAlpha(value)), FromInt(255)),
       FMul(ClampAlpha(value), FromInt(channel)))

\* C6: for every v other than 0 and 1 and every colour c, each channel of
\* __mapColor(v, c) is round((1 - alpha) * 255 + alpha * c[channel]) with
\* alpha = max(0, min(v, 1)), and lies in 0..255.
C6_Rounded ==
  (out.op = "mapColor" /\ ~IsBool(out.arg[1])
     /\ out.arg[1] # FZero /\ out.arg[1] # FOne) =>
    \A ch \in 1..3 :
      /\ out.res.value[ch] = FRound(Blend(out.arg[1], out.arg[2][ch]))
      /\ out.res.value[ch] \in 0..255

\* x lies between lo and hi, whichever is the larger
Between(x, lo, hi) == (lo <= x /\ x <= hi) \/ (hi <= x /\ x <= lo)

\* C7: for 0 <= a < b <= 1 and every colour c, each channel of
\* __mapColor(a, c) lies between 255 and the channel of __mapColor(b, c).
C7_Monotone ==
  (out.op = "mapColor" /\ ~IsBool(out.arg[1])
     /\ ~FLess(out.arg[1], FZero) /\ ~FLess(FOne, out.arg[1])) =>
    \A b \in {v \in Values : ~IsBool(v)} :
      (FLess(out.arg[1], b) /\ ~FLess(FOne, b)) =>
        \A ch \in 1..3 :
          Between(out.res.value[ch], 255, mapColor(b, out.arg[2])[ch])

\* the position of index i in the grid h
PositionOf(h, i) ==
  CHOOSE p \in (1..Rows(h)) \X (1..Cols(h)) : h[p[1]][p[2]] = i

\* C8: for a vector of length n*n, n a power of two, every cell of
\* vector_hilbert holds vector[H[row][col]] for H = __hilbertCurve(n);
\* reading the grid at the position of i in H, for i = 0 .. n*n-1, gives
\* the vector back, and the cell [0][0] holds vector[0].  (A cell is an
\* array of one element, and equality is Python's.)
C8_CurveOrder ==
  (out.op = "vector_hilbert" /\ SquareOfPowerOfTwo(Len(vector))) =>
    /\ out.res.err = NoError
    /\ IsGrid(out.res.value, ISqrt(Len(vector)), ISqrt(Len(vector)))
    /\ \A r \in 1..ISqrt(Len(vector)), c \in 1..ISqrt(Len(vector)) :
         /\ Len(out.res.value[r][c]) = 1
         /\ PyEq(out.res.value[r][c][1],
                 vector[hilbertCurve(ISqrt(Len(vector))).value[r][c] + 1])
    /\ \A i \in 0..(Len(vector) - 1) :
         PyEq(out.res.value
                [PositionOf(hilbertCurve(ISqrt(Len(vector))).value, i)[1]]
                [PositionOf(hilbertCurve(ISqrt(Len(vector))).value, i)[2]][1],
              vector[i + 1])
    /\ PyEq(out.res.value[1][1][1], vector[1])

C8_Witness ==
  /\ out.op = "vector_hilbert"
  /\ Len(vector) = 16
  /\ out.res.err = NoError
  /\ vector[1] # vector[4]
  /\ out.res.value[1][2] = << vector[4] >>

\* C9: exportPng with scale_factor s on a vector of length n*n, n a power
\* of two, gives a pixel grid of side n*k, k = 2^s, whose pixel (r, c) has
\* the colour __mapColor(vector[i], colors[i]) for i = H_n[r div k][c div k].
C9_Upsampling ==
  (out.op = "exportPng" /\ SquareOfPowerOfTwo(Len(vector))) =>
    /\ out.res.err = NoError
    /\ IsGrid(out.res.value, ISqrt(Len(vector)) * 2 ^ out.arg[1],
              ISqrt(Len(vector)) * 2 ^ out.arg[1])
    /\ \A r \in 0..(ISqrt(Len(vector)) * 2 ^ out.arg[1] - 1),
          c \in 0..(ISqrt(Len(vector)) * 2 ^ out.arg[1] - 1) :
         out.res.value[r + 1][c + 1] =
           ColoredVector(vector, colors)
             [hilbertCurve(ISqrt(Len(vector))).value
                [(r \div 2 ^ out.arg[1]) + 1][(c \div 2 ^ out.arg[1]) + 1] + 1]

C9_Witness ==
  /\ out.op = "exportPng"
  /\ out.arg[1] = 1
  /\ Len(vector) = 16
  /\ out.res.err = NoError
  /\ Len(out.res.value) = 8
  /\ out.res.value[1][1] # out.res.value[1][3]

\* the colour the claim gives a cell of non-zero value: 0.4 + value * 0.6
RescaledColor(value, base) ==
  mapColor(FAdd(FromRatio(2, 5), FMul(NumOf(value), FromRatio(3, 5))), base)

\* the cells of the table of exportHtml
HtmlCells == {out.res.value[r][c] :
                r \in 1..Len(out.res.value), c \in 1..Len(out.res.value)}

\* C10 as claimed: in exportHtml a cell of non-zero value is displayed with
\* __mapColor(0.4 + value * 0.6, base), and only a cell of value zero with
\* the dim colour __mapColor(0.2, base).
C10_ZeroDecides ==
  (out.op = "exportHtml" /\ out.res.err = NoError) =>
    \A cell \in HtmlCells :
      IF NumOf(vector[cell.api + 1]) = FZero
      THEN cell.color = mapColor(FromRatio(1, 5), colors[cell.api + 1])
      ELSE cell.color = RescaledColor(vector[cell.api + 1], colors[cell.api + 1])

\* C10 as amended: in exportHtml a cell is displayed with the dim colour
\* __mapColor(0.2, base) exactly when __mapColor(value, base) is the
\* sentinel colour, and with __mapColor(0.4 + value * 0.6, base) otherwise;
\* the cell at [row][col] is the cell of the API H[row][col].
C10_SentinelDecides ==
  (out.op = "exportHtml" /\ out.res.err = NoError) =>
    \A r \in 1..Len(out.res.value), c \in 1..Len(out.res.value) :
      /\ out.res.value[r][c].api =
           hilbertCurve(ISqrt(Len(vector))).value[r][c]
      /\ IF mapColor(vector[out.res.value[r][c].api + 1],
                     colors[out.res.value[r][c].api + 1]) = colors_white
         THEN out.res.value[r][c].color =
                mapColor(FromRatio(1, 5), colors[out.res.value[r][c].api + 1])
         ELSE out.res.value[r][c].color =
                RescaledColor(vector[out.res.value[r][c].api + 1],
                              colors[out.res.value[r][c].api + 1])

\* a table with a dim cell whose value is not zero
C10_Witness ==
  /\ out.op = "exportHtml"
  /\ out.res.err = NoError
  /\ \E cell \in HtmlCells :
       /\ NumOf(vector[cell.api + 1]) # FZero
       /\ cell.delay
       /\ cell.color = mapColor(FromRatio(1, 5), colors[cell.api + 1])
       /\ cell.color # RescaledColor(vector[cell.api + 1], colors[cell.api + 1])

====
